---- MODULE Spec2Model ----
(***************************************************************************)
(* grpc_pool: a connection pool (GRpcClientPool, src/pool.go) and a        *)
(* registry of pools keyed by address (MapPool, src/mappool.go).           *)
(*                                                                         *)
(* Connections are identified by the order in which dialF created them.    *)
(* Goroutines are the threads 1..NumThreads.  A thread blocked in Lock()   *)
(* is a thread whose next step is not enabled.                             *)
(***************************************************************************)
EXTENDS Integers, Sequences, FiniteSets, TLC

\* ------------------------------------------------------------------ bounds
NumThreads == 2
MaxConns == 2
MaxTime == 2
MaxCap == 2
MaxIdle == 1
MaxMisuse == 1
MaxPools == 2

Threads == 1..NumThreads
Conns == 1..MaxConns
PoolIds == 1..MaxPools
Addrs == {"a", "b"}

NoThread == 0
NilClient == 0
NoPool == 0

\* the error values of src/pool.go:13-17, "nil" is Go's nil error,
\* "DialError" stands for whatever error dialF returned
ERROR_MAX_CLIENT_COUNT == "Client count reach max count"
ERROR_INVALID_CLIENT == "Invalid client, maybe closed or not connected"
ERROR_NIL_CLIENT == "Client is nil"
DialError == "dial error"
NotExist == "GRpcClientPool not exist"
Nil == "nil"

VARIABLES
    pool,           \* pool[p]: GRpcClientPool.pool, the idle connections, oldest first
    count,          \* count[p]: GRpcClientPool.count
    mu,             \* mu[p]: the thread inside p's sync.Mutex, or NoThread
    maxCount,       \* GRpcClientPool.maxCount / MapPool.maxCount
    idleDur,        \* GRpcClientPool.idleTimeout / MapPool.idleTimeout
    now,            \* time.Now()
    nextConn,       \* the next connection dialF creates
    lastCalledTime, \* lastCalledTime[c]: IdleClient.lastCalledTime
    closeCnt,       \* closeCnt[c]: how many times c.close() ran
    connPool,       \* connPool[c]: the pool whose Get dialed c
    pc,             \* pc[t]: where thread t is
    loc,            \* loc[t]: the locals of the call thread t is in
    held,           \* held[t]: connections Get handed to t, not yet handed back
    has,            \* has[t]: the pools t has a pointer to
    misuses,        \* how many hand-backs were of a connection the caller did not hold
    orphan,         \* the connections that were checked out when a Release ran
    last,           \* the step just taken and what it returned
    pools,          \* MapPool.pools: address -> pool, NoPool when absent
    nextPool,       \* the next pool NewGRpcClientPool creates
    poolAddr,       \* poolAddr[p]: GRpcClientPool.addr
    released,       \* released[p]: how many times p.Release() ran
    rw,             \* MapPool's sync.RWMutex: the thread holding the write lock
    deleted         \* whether an entry was ever taken out of MapPool.pools

poolVars == <<pool, count, mu, maxCount, idleDur, now, nextConn, lastCalledTime,
              closeCnt, connPool, held, misuses, orphan>>
regVars == <<pools, nextPool, poolAddr, released, rw, deleted>>
vars == <<poolVars, regVars, pc, loc, has, last>>

\* ------------------------------------------------------------- IdleClient

\* an idleTimeout that is true only once lastCalledTime + idle is before now
idleTimeoutStrict(c, idle) ==
    IF lastCalledTime[c] + idle < now THEN TRUE ELSE FALSE

\* IdleClient.idleTimeout: true unless lastCalledTime + idle is after now
idleTimeout(c, idle) ==
    IF lastCalledTime[c] + idle > now THEN FALSE ELSE TRUE

\* conn.GetState() of a connection the pool closed is Shutdown; of an open one
\* it is whatever the transport says
GetStates(c) == IF closeCnt[c] > 0 THEN {FALSE} ELSE BOOLEAN

\* IdleClient.close on every entry of s, in order
RECURSIVE closeAll(_, _)
closeAll(cc, s) ==
    IF s = <<>> THEN cc
    ELSE closeAll([cc EXCEPT ![Head(s)] = @ + 1], Tail(s))

\* a decrement without the guard (the bug: the count can go below 0)
decrUnguarded(n) == n - 1

\* a decrement that is forgotten (the bug: a closed connection stays counted)
decrNone(n) == n

\* the guarded decrement "if p.count > 0 { p.count-- }"
decr(n) == IF n > 0 THEN n - 1 ELSE n

\* --------------------------------------------------------- GRpcClientPool

\* Get's loop over p.pool: the number of leading entries that are stale
RECURSIVE staleIndex(_, _)
staleIndex(s, idle) ==
    IF s = <<>> THEN 0
    ELSE IF ~idleTimeout(Head(s), idle) THEN 0
    ELSE 1 + staleIndex(Tail(s), idle)

\* an eviction loop that forgets "p.count--"
evictCountKeep(n, index) == n

\* the count after the loop closed the first index entries
RECURSIVE evictCount(_, _)
evictCount(n, index) ==
    IF index = 0 THEN n ELSE evictCount(decr(n), index - 1)

\* a capacity test that is off by one
atCapacityOffByOne(n) == n > maxCount

\* Get's capacity test
atCapacity(n) == n >= maxCount

\* handing out the newest idle entry instead of the oldest
frontLast(s) == s[Len(s)]

\* the entry Get hands out, "c = p.pool[0]"
front(s) == Head(s)

\* handing out the front entry without taking it out of the idle set
afterPopKeep(s) == s

\* what Get leaves idle, "p.pool = p.pool[1:]"
afterPop(s) == Tail(s)

\* a Put that forgets the append
putBackDrop(s, c) == s

\* a Put that puts the connection at the front
putBackFront(s, c) == <<c>> \o s

\* Put's "p.pool = append(p.pool, c)"
putBack(s, c) == Append(s, c)

\* a Get that does not take the mutex
LockNoop(t) == NoThread

\* p.Lock() by thread t: t is now inside the mutex
Lock(t) == t

\* an Unlock() that is forgotten: t stays inside the lock
UnlockForgotten(t) == t

\* p.Unlock() and mp.Unlock() by thread t: nobody is inside the lock
Unlock(t) == NoThread

\* what Release leaves in p.count
releaseCount(n) == 0

\* a Release that does not empty the idle set
releasePoolKeep(s) == s

\* what Release leaves in p.pool
releasePool(s) == <<>>

\* what the step record remembers of the calls before it: "exhausted" once a
\* Get returned ERROR_MAX_CLIENT_COUNT, "freed" once a connection was handed
\* back (Put or DelErrorClient of a connection, completed) or the pool was
\* released after that, "recovered" at the first Get after that which does not
\* return ERROR_MAX_CLIENT_COUNT
Recov(op, c, err) ==
    IF op \in {"Get", "GetEnter"}
    THEN IF err = ERROR_MAX_CLIENT_COUNT THEN "exhausted"
         ELSE IF last.recov = "freed" THEN "recovered" ELSE "none"
    ELSE IF \/ op \in {"Put", "DelErrorClient"} /\ c # NilClient
            \/ op = "Release"
         THEN IF last.recov \in {"exhausted", "freed"} THEN "freed" ELSE "none"
         ELSE IF last.recov = "recovered" THEN "none" ELSE last.recov

\* the record of a step: the operation, its caller, pool and connection, the
\* error it returned; for a Get the number of stale entries it closed (ev), for
\* a Release whether the step before it was a Release too (again)
Ret(op, t, p, c, err) ==
    [op |-> op, t |-> t, p |-> p, c |-> c, err |-> err, ev |-> 0, again |-> FALSE,
     recov |-> Recov(op, c, err)]
GetRet(op, t, p, c, err, ev) == [Ret(op, t, p, c, err) EXCEPT !.ev = ev]

\* NewGRpcClientPool
NewPoolState == [pool |-> <<>>, count |-> 0]

\* the locals of a thread that is in no call
\* (n and ev remember, for a Get that is dialing, the count it found and the
\* number of stale entries it closed)
NoLocals == [p |-> NoPool, c |-> NilClient, a |-> "", todo |-> {}, n |-> 0, ev |-> 0]

\* the calls of dialF that have not returned yet
Dialing == Cardinality({t \in Threads : pc[t] = "dial"})

\* Get up to the call of dialF: Lock, drop the stale prefix, then either fail
\* at capacity, or hand out the front idle connection, or go on to dial with
\* the mutex held
GetEnter(t, p) ==
    /\ pc[t] = "idle"
    /\ p \in has[t]
    /\ mu[p] = NoThread
    /\ LET index == staleIndex(pool[p], idleDur)
           stale == SubSeq(pool[p], 1, index)
           rest == SubSeq(pool[p], index + 1, Len(pool[p]))
           n == evictCount(count[p], index)
       IN /\ closeCnt' = closeAll(closeCnt, stale)
          /\ count' = [count EXCEPT ![p] = n]
          /\ IF Len(rest) = 0
             THEN IF atCapacity(n)
                  THEN /\ pool' = [pool EXCEPT ![p] = rest]
                       /\ last' = GetRet("Get", t, p, NilClient, ERROR_MAX_CLIENT_COUNT, index)
                       /\ UNCHANGED <<mu, pc, loc, held>>
                  ELSE /\ nextConn + Dialing <= MaxConns
                       /\ pool' = [pool EXCEPT ![p] = rest]
                       /\ mu' = [mu EXCEPT ![p] = Lock(t)]
                       /\ pc' = [pc EXCEPT ![t] = "dial"]
                       /\ loc' = [loc EXCEPT ![t] = [NoLocals EXCEPT !.p = p, !.n = count[p], !.ev = index]]
                       /\ last' = GetRet("GetEnter", t, p, NilClient, Nil, index)
                       /\ UNCHANGED held
             ELSE /\ pool' = [pool EXCEPT ![p] = afterPop(rest)]
                  /\ held' = [held EXCEPT ![t] = @ \cup {front(rest)}]
                  /\ last' = GetRet("Get", t, p, front(rest), Nil, index)
                  /\ UNCHANGED <<mu, pc, loc>>
    /\ UNCHANGED <<maxCount, idleDur, now, nextConn, lastCalledTime, connPool,
                   misuses, orphan, has, regVars>>

\* Get from the return of dialF: on an error return it; else stamp the new
\* connection, count it and return it.  The deferred Unlock ends both.
GetDial(t, ok) ==
    /\ pc[t] = "dial"
    /\ LET p == loc[t].p
           c == nextConn
       IN /\ mu' = [mu EXCEPT ![p] = Unlock(t)]
          /\ IF ok
             THEN /\ nextConn' = nextConn + 1
                  /\ connPool' = [connPool EXCEPT ![c] = p]
                  /\ lastCalledTime' = [lastCalledTime EXCEPT ![c] = now]
                  /\ count' = [count EXCEPT ![p] = @ + 1]
                  /\ held' = [held EXCEPT ![t] = @ \cup {c}]
                  /\ last' = GetRet("Get", t, p, c, Nil, loc[t].ev)
             ELSE /\ last' = GetRet("Get", t, p, NilClient, DialError, loc[t].ev)
                  /\ UNCHANGED <<nextConn, connPool, lastCalledTime, count, held>>
    /\ pc' = [pc EXCEPT ![t] = "idle"]
    /\ loc' = [loc EXCEPT ![t] = NoLocals]
    /\ UNCHANGED <<pool, maxCount, idleDur, now, closeCnt, misuses, orphan, has, regVars>>

\* the connections a caller can pass to pool p: the ones it holds, and (a
\* caller's mistake, counted in misuses) any other connection p ever dialed
Dialed == 1..(nextConn - 1)
CanPass(t, p, c) ==
    /\ c \in Dialed
    /\ connPool[c] = p
    /\ c \notin held[t] => misuses < MaxMisuse
Misuse(t, c) == IF c \in held[t] THEN misuses ELSE misuses + 1

\* Put(nil)
PutNil(t, p) ==
    /\ pc[t] = "idle"
    /\ p \in has[t]
    /\ last' = Ret("Put", t, p, NilClient, ERROR_NIL_CLIENT)
    /\ UNCHANGED <<poolVars, regVars, pc, loc, has>>

\* Put(c), c not nil, valid the result of c.checkValid()
Put(t, p, c, valid) ==
    /\ pc[t] = "idle"
    /\ p \in has[t]
    /\ CanPass(t, p, c)
    /\ mu[p] = NoThread
    /\ valid \in GetStates(c)
    /\ IF ~valid
       THEN /\ closeCnt' = [closeCnt EXCEPT ![c] = @ + 1]
            /\ count' = [count EXCEPT ![p] = decr(@)]
            /\ last' = Ret("Put", t, p, c, ERROR_INVALID_CLIENT)
            /\ UNCHANGED <<pool, lastCalledTime>>
       ELSE /\ lastCalledTime' = [lastCalledTime EXCEPT ![c] = now]
            /\ pool' = [pool EXCEPT ![p] = putBack(@, c)]
            /\ last' = Ret("Put", t, p, c, Nil)
            /\ UNCHANGED <<closeCnt, count>>
    /\ held' = [held EXCEPT ![t] = @ \ {c}]
    /\ misuses' = Misuse(t, c)
    /\ UNCHANGED orphan
    /\ UNCHANGED <<mu, maxCount, idleDur, now, nextConn, connPool, pc, loc, has, regVars>>

\* DelErrorClient(nil)
DelNil(t, p) ==
    /\ pc[t] = "idle"
    /\ p \in has[t]
    /\ last' = Ret("DelErrorClient", t, p, NilClient, Nil)
    /\ UNCHANGED <<poolVars, regVars, pc, loc, has>>

\* DelErrorClient(c) up to Lock: c.close() runs outside the mutex
DelClose(t, p, c) ==
    /\ pc[t] = "idle"
    /\ p \in has[t]
    /\ CanPass(t, p, c)
    /\ closeCnt' = [closeCnt EXCEPT ![c] = @ + 1]
    /\ held' = [held EXCEPT ![t] = @ \ {c}]
    /\ misuses' = Misuse(t, c)
    /\ UNCHANGED orphan
    /\ pc' = [pc EXCEPT ![t] = "del"]
    /\ loc' = [loc EXCEPT ![t] = [NoLocals EXCEPT !.p = p, !.c = c]]
    /\ last' = Ret("DelClose", t, p, c, Nil)
    /\ UNCHANGED <<pool, count, mu, maxCount, idleDur, now, nextConn, lastCalledTime,
                   connPool, has, regVars>>

\* DelErrorClient(c) from Lock to Unlock
DelLocked(t) ==
    /\ pc[t] = "del"
    /\ mu[loc[t].p] = NoThread
    /\ count' = [count EXCEPT ![loc[t].p] = decr(@)]
    /\ pc' = [pc EXCEPT ![t] = "idle"]
    /\ loc' = [loc EXCEPT ![t] = NoLocals]
    /\ last' = Ret("DelErrorClient", t, loc[t].p, loc[t].c, Nil)
    /\ UNCHANGED <<pool, mu, maxCount, idleDur, now, nextConn, lastCalledTime, closeCnt,
                   connPool, held, misuses, orphan, has, regVars>>

\* the body of Release on pool p
ReleaseBody(p) ==
    /\ closeCnt' = closeAll(closeCnt, pool[p])
    /\ count' = [count EXCEPT ![p] = releaseCount(@)]
    /\ pool' = [pool EXCEPT ![p] = releasePool(@)]
    /\ released' = [released EXCEPT ![p] = IF @ < 2 THEN @ + 1 ELSE @]
    /\ orphan' = orphan \cup {c \in UNION {held[t] : t \in Threads} : connPool[c] = p}

\* Release called by a thread on a pool it holds
Release(t, p) ==
    /\ pc[t] = "idle"
    /\ p \in has[t]
    /\ mu[p] = NoThread
    /\ ReleaseBody(p)
    /\ last' = [Ret("Release", t, p, NilClient, Nil) EXCEPT !.again = (last.op = "Release")]
    /\ UNCHANGED <<mu, maxCount, idleDur, now, nextConn, lastCalledTime, connPool,
                   held, misuses, pc, loc, has, pools, nextPool, poolAddr, rw, deleted>>

\* time passes
Tick ==
    /\ now < MaxTime
    /\ now' = now + 1
    /\ last' = Ret("Tick", NoThread, NoPool, NilClient, Nil)
    /\ UNCHANGED <<pool, count, mu, maxCount, idleDur, nextConn, lastCalledTime,
                   closeCnt, connPool, held, misuses, orphan, regVars, pc, loc, has>>

\* ------------------------------------------------------------ one pool

\* a pool built by NewGRpcClientPool and shared by all threads, as in
\* src/example/client.go
TypeInit ==
    /\ pool = [p \in PoolIds |-> NewPoolState.pool]
    /\ count = [p \in PoolIds |-> NewPoolState.count]
    /\ mu = [p \in PoolIds |-> NoThread]
    /\ maxCount \in 0..MaxCap
    /\ idleDur \in 1..MaxIdle
    /\ now = 0
    /\ nextConn = 1
    /\ lastCalledTime = [c \in Conns |-> 0]
    /\ closeCnt = [c \in Conns |-> 0]
    /\ connPool = [c \in Conns |-> NoPool]
    /\ pc = [t \in Threads |-> "idle"]
    /\ loc = [t \in Threads |-> NoLocals]
    /\ held = [t \in Threads |-> {}]
    /\ misuses = 0
    /\ orphan = {}
    /\ last = [op |-> "New", t |-> NoThread, p |-> NoPool, c |-> NilClient, err |-> Nil,
               ev |-> 0, again |-> FALSE, recov |-> "none"]
    /\ released = [p \in PoolIds |-> 0]
    /\ rw = NoThread
    /\ deleted = FALSE

Init ==
    /\ TypeInit
    /\ has = [t \in Threads |-> {1}]
    /\ pools = [a \in Addrs |-> NoPool]
    /\ nextPool = 2
    /\ poolAddr = [p \in PoolIds |-> IF p = 1 THEN "a" ELSE ""]

Next ==
    \/ \E t \in Threads : GetEnter(t, 1)
    \/ \E t \in Threads, ok \in BOOLEAN : GetDial(t, ok)
    \/ \E t \in Threads : PutNil(t, 1)
    \/ \E t \in Threads, c \in Conns, valid \in BOOLEAN : Put(t, 1, c, valid)
    \/ \E t \in Threads : DelNil(t, 1)
    \/ \E t \in Threads, c \in Conns : DelClose(t, 1, c)
    \/ \E t \in Threads : DelLocked(t)
    \/ \E t \in Threads : Release(t, 1)
    \/ Tick

Spec == Init /\ [][Next]_vars

\* ---------------------------------------------------------------- MapPool

\* MapPool.getPool: the lookup under RLock; NoPool stands for the error
getPool(a) == pools[a]

\* what GetPool does on a miss: build a pool and store it under the address
\* (the new pool is p, the one created by this call)
insertPool(m, a, p) == [m EXCEPT ![a] = p]

\* GetPool up to mp.Lock(): the lookup, and on a miss NewGRpcClientPool
GetPoolLookup(t, a) ==
    /\ pc[t] = "idle"
    /\ rw = NoThread
    /\ IF getPool(a) # NoPool
       THEN /\ has' = [has EXCEPT ![t] = @ \cup {getPool(a)}]
            /\ last' = Ret("GetPool", t, getPool(a), NilClient, Nil)
            /\ UNCHANGED <<pc, loc, nextPool, poolAddr, pool, count>>
       ELSE /\ nextPool <= MaxPools
            /\ nextPool' = nextPool + 1
            /\ poolAddr' = [poolAddr EXCEPT ![nextPool] = a]
            /\ pool' = [pool EXCEPT ![nextPool] = NewPoolState.pool]
            /\ count' = [count EXCEPT ![nextPool] = NewPoolState.count]
            /\ pc' = [pc EXCEPT ![t] = "gp"]
            /\ loc' = [loc EXCEPT ![t] = [NoLocals EXCEPT !.p = nextPool, !.a = a]]
            /\ last' = Ret("GetPoolMiss", t, nextPool, NilClient, Nil)
            /\ UNCHANGED has
    /\ UNCHANGED <<mu, maxCount, idleDur, now, nextConn, lastCalledTime, closeCnt,
                   connPool, held, misuses, orphan, pools, released, rw, deleted>>

\* GetPool from mp.Lock() to the return
GetPoolInsert(t) ==
    /\ pc[t] = "gp"
    /\ rw = NoThread
    /\ pools' = insertPool(pools, loc[t].a, loc[t].p)
    /\ has' = [has EXCEPT ![t] = @ \cup {loc[t].p}]
    /\ pc' = [pc EXCEPT ![t] = "idle"]
    /\ loc' = [loc EXCEPT ![t] = NoLocals]
    /\ last' = Ret("GetPool", t, loc[t].p, NilClient, Nil)
    /\ UNCHANGED <<poolVars, nextPool, poolAddr, released, rw, deleted>>

\* ReleasePool up to mp.Lock(): the lookup
ReleasePoolLookup(t, a) ==
    /\ pc[t] = "idle"
    /\ rw = NoThread
    /\ IF getPool(a) = NoPool
       THEN /\ last' = Ret("ReleasePool", t, NoPool, NilClient, NotExist)
            /\ UNCHANGED <<pc, loc>>
       ELSE /\ pc' = [pc EXCEPT ![t] = "rp"]
            /\ loc' = [loc EXCEPT ![t] = [NoLocals EXCEPT !.p = getPool(a), !.a = a]]
            /\ last' = Ret("ReleasePoolFound", t, getPool(a), NilClient, Nil)
    /\ UNCHANGED <<poolVars, regVars, has>>

\* ReleasePool: mp.Lock(); delete(mp.pools, addr); mp.Unlock()
ReleasePoolDelete(t) ==
    /\ pc[t] = "rp"
    /\ rw = NoThread
    /\ pools' = [pools EXCEPT ![loc[t].a] = NoPool]
    /\ deleted' = TRUE
    /\ pc' = [pc EXCEPT ![t] = "rprel"]
    /\ last' = Ret("ReleasePoolDelete", t, loc[t].p, NilClient, Nil)
    /\ UNCHANGED <<poolVars, nextPool, poolAddr, released, rw, loc, has>>

\* ReleasePool: p.Release() and the return
ReleasePoolRelease(t) ==
    /\ pc[t] = "rprel"
    /\ mu[loc[t].p] = NoThread
    /\ ReleaseBody(loc[t].p)
    /\ pc' = [pc EXCEPT ![t] = "idle"]
    /\ loc' = [loc EXCEPT ![t] = NoLocals]
    /\ last' = Ret("ReleasePool", t, loc[t].p, NilClient, Nil)
    /\ UNCHANGED <<mu, maxCount, idleDur, now, nextConn, lastCalledTime, connPool,
                   held, misuses, has, pools, nextPool, poolAddr, rw, deleted>>

\* the pools in the map
Registered == {pools[a] : a \in Addrs} \ {NoPool}

\* ReleaseAllPool: mp.Lock()
ReleaseAllLock(t) ==
    /\ pc[t] = "idle"
    /\ rw = NoThread
    /\ rw' = t
    /\ pc' = [pc EXCEPT ![t] = "ra"]
    /\ loc' = [loc EXCEPT ![t] = [NoLocals EXCEPT !.todo = Registered]]
    /\ last' = Ret("ReleaseAllLock", t, NoPool, NilClient, Nil)
    /\ UNCHANGED <<poolVars, pools, nextPool, poolAddr, released, deleted, has>>

\* ReleaseAllPool: one round of the loop, p.Release() (Go ranges over a map in
\* any order)
ReleaseAllStep(t, p) ==
    /\ pc[t] = "ra"
    /\ p \in loc[t].todo
    /\ mu[p] = NoThread
    /\ ReleaseBody(p)
    /\ loc' = [loc EXCEPT ![t].todo = @ \ {p}]
    /\ last' = Ret("ReleaseAllStep", t, p, NilClient, Nil)
    /\ UNCHANGED <<mu, maxCount, idleDur, now, nextConn, lastCalledTime, connPool,
                   held, misuses, pc, has, pools, nextPool, poolAddr, rw, deleted>>

\* ReleaseAllPool: the map is replaced by an empty one; mp.Unlock()
ReleaseAllDone(t) ==
    /\ pc[t] = "ra"
    /\ loc[t].todo = {}
    /\ pools' = [a \in Addrs |-> NoPool]
    /\ deleted' = TRUE
    /\ rw' = Unlock(t)
    /\ pc' = [pc EXCEPT ![t] = "idle"]
    /\ loc' = [loc EXCEPT ![t] = NoLocals]
    /\ last' = Ret("ReleaseAllPool", t, NoPool, NilClient, Nil)
    /\ UNCHANGED <<poolVars, nextPool, poolAddr, released, has>>

\* a MapPool built by NewMapPool; the threads get their pools from it
RegInit ==
    /\ TypeInit
    /\ maxCount = 1
    /\ has = [t \in Threads |-> {}]
    /\ pools = [a \in Addrs |-> NoPool]
    /\ nextPool = 1
    /\ poolAddr = [p \in PoolIds |-> ""]

RegNext ==
    \/ \E t \in Threads, a \in Addrs : GetPoolLookup(t, a)
    \/ \E t \in Threads : GetPoolInsert(t)
    \/ \E t \in Threads, a \in Addrs : ReleasePoolLookup(t, a)
    \/ \E t \in Threads : ReleasePoolDelete(t)
    \/ \E t \in Threads : ReleasePoolRelease(t)
    \/ \E t \in Threads : ReleaseAllLock(t)
    \/ \E t \in Threads, p \in PoolIds : ReleaseAllStep(t, p)
    \/ \E t \in Threads : ReleaseAllDone(t)
    \/ \E t \in Threads, p \in PoolIds : GetEnter(t, p)
    \/ \E t \in Threads, ok \in BOOLEAN : GetDial(t, ok)
    \/ \E t \in Threads, p \in PoolIds, valid \in BOOLEAN : \E c \in held[t] : Put(t, p, c, valid)

RegSpec == RegInit /\ [][RegNext]_vars

\* ------------------------------------------- all operations, fair scheduling

\* the number of pools the fair specification lets GetPool create
LiveMaxPools == 1

\* the registry's operations and all four pool operations, by callers that
\* hand back only connections they hold
LiveNext ==
    \/ \E t \in Threads, a \in Addrs :
          GetPoolLookup(t, a) /\ (pc'[t] = "gp" => nextPool <= LiveMaxPools)
    \/ \E t \in Threads : GetPoolInsert(t)
    \/ \E t \in Threads, a \in Addrs : ReleasePoolLookup(t, a)
    \/ \E t \in Threads : ReleasePoolDelete(t)
    \/ \E t \in Threads : ReleasePoolRelease(t)
    \/ \E t \in Threads : ReleaseAllLock(t)
    \/ \E t \in Threads, p \in PoolIds : ReleaseAllStep(t, p)
    \/ \E t \in Threads : ReleaseAllDone(t)
    \/ \E t \in Threads, p \in PoolIds : GetEnter(t, p)
    \/ \E t \in Threads, ok \in BOOLEAN : GetDial(t, ok)
    \/ \E t \in Threads, p \in PoolIds, valid \in BOOLEAN : \E c \in held[t] : Put(t, p, c, valid)
    \/ \E t \in Threads, p \in PoolIds : \E c \in held[t] : DelClose(t, p, c)
    \/ \E t \in Threads : DelLocked(t)
    \/ \E t \in Threads, p \in PoolIds : Release(t, p)

\* the step that takes thread t on in the call it has started: the return of
\* dialF, or the Lock() the call waits in and what follows it
Continue(t) ==
    \/ \E ok \in BOOLEAN : GetDial(t, ok)
    \/ DelLocked(t)
    \/ GetPoolInsert(t)
    \/ ReleasePoolDelete(t)
    \/ ReleasePoolRelease(t)
    \/ \E p \in PoolIds : ReleaseAllStep(t, p)
    \/ ReleaseAllDone(t)

\* what the scheduler and the locks grant a call that has started: dialF
\* returns, and a goroutine waiting in Lock() gets the lock if it is free again
\* and again (Go's sync.Mutex and sync.RWMutex do not starve a waiter).
\* Nothing makes a caller start a call.
LiveFairness == \A t \in Threads : SF_vars(Continue(t))

LiveSpec == RegInit /\ [][LiveNext]_vars /\ LiveFairness

\* ------------------------------------------------------------------ claims

\* how often c is in the sequence s
Occ(s, c) == Cardinality({i \in 1..Len(s) : s[i] = c})

\* the threads that hold c
Holders(c) == {t \in Threads : c \in held[t]}

\* the connections dialed and not closed
Open == {c \in Dialed : closeCnt[c] = 0}

\* thread t starts a Get in this step
GetStart(t) == pc[t] = "idle" /\ last'.t = t /\ last'.op \in {"Get", "GetEnter"}

\* C1: with capacity maxCount > 0 the count stays within 0..maxCount, whatever
\* the callers do, the probe says, dialF returns and however time passes
C1_CountInRange ==
    maxCount > 0 => (count[1] >= 0 /\ count[1] <= maxCount)

C1_Witness ==
    /\ maxCount > 0
    /\ count[1] = maxCount
    /\ last.op = "Get"
    /\ last.err = ERROR_MAX_CLIENT_COUNT

\* C2: as long as every connection is handed back at most once, the number of
\* connections dialed and not closed is at most maxCount
C2_OpenAtMostMax ==
    misuses = 0 => Cardinality(Open) <= maxCount

\* C3: without any removal from the map, two pools for one address are never
\* in callers' hands: concurrent first GetPool calls for an address return the
\* same pool
C3_SamePool ==
    ~deleted =>
        \A t1 \in Threads, t2 \in Threads :
            \A p1 \in has[t1], p2 \in has[t2] :
                poolAddr[p1] = poolAddr[p2] => p1 = p2

\* nothing was handed back or released (or what was handed back is checked
\* out again): every connection dialed is open and held, none is idle
NoHandback ==
    /\ released[1] = 0
    /\ misuses = 0
    /\ pool[1] = <<>>
    /\ \A c \in Dialed : closeCnt[c] = 0 /\ Holders(c) # {}

\* C4: with capacity maxCount > 0 and no hand-backs, concurrent Gets create at
\* most maxCount connections, and a Get that returns no connection once
\* maxCount are out returns ERROR_MAX_CLIENT_COUNT
C4_AtMostCapacityCreated ==
    (maxCount > 0 /\ NoHandback) =>
        /\ Cardinality(Dialed) <= maxCount
        /\ (last.op = "Get" /\ last.c = NilClient /\ Cardinality(Dialed) = maxCount)
              => last.err = ERROR_MAX_CLIENT_COUNT

C4_Witness ==
    /\ maxCount > 0
    /\ NoHandback
    /\ Cardinality(Dialed) = maxCount
    /\ Cardinality({t \in Threads : held[t] # {}}) = maxCount
    /\ last.op = "Get"
    /\ last.err = ERROR_MAX_CLIENT_COUNT
    /\ held[last.t] = {}

\* every open connection is idle exactly once or held by exactly one thread,
\* and the connection a Get just returned is not idle
IdleXorCheckedOut ==
    /\ \A c \in Open :
          \/ Occ(pool[1], c) = 1 /\ Holders(c) = {}
          \/ Occ(pool[1], c) = 0 /\ Cardinality(Holders(c)) = 1
    /\ (last.op = "Get" /\ last.c # NilClient) => Occ(pool[1], last.c) = 0

\* C5 as stated: in every reachable state an open connection is either idle
\* once or checked out to one caller, and a returned connection is not idle
C5_IdleXorCheckedOut == IdleXorCheckedOut

\* C5 amended: the same, as long as callers hand back only connections they
\* hold (each checked-out connection at most once)
C5_IdleXorCheckedOutDisciplined == misuses = 0 => IdleXorCheckedOut

C5_Witness ==
    /\ misuses = 0
    /\ last.op = "Get"
    /\ last.c # NilClient
    /\ last.c \in held[last.t]
    /\ Len(pool[1]) >= 1

\* C6 as stated: Put of a connection whose probe says not live closes it,
\* lowers the count by exactly one, leaves the idle set alone and returns
\* ERROR_INVALID_CLIENT
C6_InvalidPutDecrements ==
    [][\A t \in Threads, c \in Conns :
          Put(t, 1, c, FALSE) =>
              /\ closeCnt'[c] = closeCnt[c] + 1
              /\ count'[1] = count[1] - 1
              /\ pool' = pool
              /\ last'.err = ERROR_INVALID_CLIENT]_vars

\* C6 amended: the same, except that a count that is already 0 stays 0
C6_InvalidPutDecrementsToZero ==
    [][\A t \in Threads, c \in Conns :
          Put(t, 1, c, FALSE) =>
              /\ closeCnt'[c] = closeCnt[c] + 1
              /\ count'[1] = (IF count[1] > 0 THEN count[1] - 1 ELSE 0)
              /\ pool' = pool
              /\ last'.err = ERROR_INVALID_CLIENT]_vars

C6_Witness ==
    /\ last.op = "Put"
    /\ last.err = ERROR_INVALID_CLIENT
    /\ closeCnt[last.c] = 1
    /\ misuses = 0
    /\ count[1] = 0
    /\ last.c \in orphan

\* the idle set is one entry, and that entry is older than the idle timeout
OneStaleIdle ==
    /\ Len(pool[1]) = 1
    /\ now - lastCalledTime[pool[1][1]] > idleDur

\* a Get that finds one stale entry closes it, empties the idle set and dials
StaleIsEvicted ==
    \A t \in Threads :
        (GetStart(t) /\ OneStaleIdle) =>
            /\ closeCnt'[pool[1][1]] = closeCnt[pool[1][1]] + 1
            /\ pool'[1] = <<>>
            /\ last'.op = "GetEnter"
            /\ last'.ev = 1

\* thread t's Get, which closed one stale entry, returns in this step
EvictingGetReturns(t) ==
    pc[t] = "dial" /\ loc[t].ev = 1 /\ last'.t = t /\ last'.op = "Get"

\* C7 as stated: a Get that finds only a stale connection idle closes it,
\* creates and returns one new connection, and leaves the count as it was
C7_EvictThenDialKeepsCount ==
    [][/\ StaleIsEvicted
       /\ \A t \in Threads :
             EvictingGetReturns(t) =>
                 /\ last'.err = Nil
                 /\ last'.c = nextConn
                 /\ nextConn' = nextConn + 1
                 /\ count'[1] = loc[t].n]_vars

\* C7 amended: the Get closes the stale connection and dials; if dialF fails,
\* its error is returned, nothing is created and the count is one lower (or
\* still 0); if it succeeds, the one new connection is returned and the count
\* is as before, or 1 if it was 0
C7_EvictThenDial ==
    [][/\ StaleIsEvicted
       /\ \A t \in Threads :
             EvictingGetReturns(t) =>
                 IF last'.err = Nil
                 THEN /\ last'.c = nextConn
                      /\ nextConn' = nextConn + 1
                      /\ count'[1] = (IF loc[t].n > 0 THEN loc[t].n ELSE 1)
                 ELSE /\ last'.err = DialError
                      /\ last'.c = NilClient
                      /\ nextConn' = nextConn
                      /\ count'[1] = (IF loc[t].n > 0 THEN loc[t].n - 1 ELSE 0)]_vars

C7_Witness ==
    /\ last.op = "Get"
    /\ last.ev = 1
    /\ last.err = Nil
    /\ last.c = nextConn - 1
    /\ closeCnt[last.c] = 0
    /\ \E c \in Dialed : closeCnt[c] = 1
    /\ count[1] = 1
    /\ pool[1] = <<>>
    /\ misuses = 0
    /\ released[1] = 0

\* C8: Release leaves the idle set empty and the count 0, and a Release right
\* after a Release closes nothing and changes neither
C8_ReleaseIdempotent ==
    [][last'.op = "Release" =>
          /\ pool'[1] = <<>>
          /\ count'[1] = 0
          /\ last.op = "Release" =>
                /\ closeCnt' = closeCnt
                /\ pool'[1] = pool[1]
                /\ count'[1] = count[1]]_vars

C8_Witness ==
    /\ last.op = "Release"
    /\ last.again
    /\ released[1] = 2
    /\ \E c \in Dialed : closeCnt[c] = 1
    /\ pool[1] = <<>>
    /\ count[1] = 0

\* C9: at capacity (count = maxCount > 0) a Get fails with
\* ERROR_MAX_CLIENT_COUNT when nothing is idle; when the front idle entry is
\* within the idle timeout the Get returns that entry without dialing, and
\* leaves the count as it is
C9_ReuseAtCapacity ==
    [][\A t \in Threads :
          (GetStart(t) /\ maxCount > 0 /\ count[1] = maxCount) =>
              IF pool[1] = <<>>
              THEN /\ last'.err = ERROR_MAX_CLIENT_COUNT
                   /\ last'.c = NilClient
                   /\ count'[1] = count[1]
                   /\ nextConn' = nextConn
                   /\ pc'[t] = "idle"
              ELSE ~idleTimeout(pool[1][1], idleDur) =>
                   /\ last'.op = "Get"
                   /\ last'.err = Nil
                   /\ last'.c = pool[1][1]
                   /\ pool'[1] = Tail(pool[1])
                   /\ count'[1] = count[1]
                   /\ nextConn' = nextConn
                   /\ pc'[t] = "idle"]_vars

C9_Witness ==
    /\ maxCount = 2
    /\ count[1] = 2
    /\ nextConn = 3
    /\ last.op = "Get"
    /\ last.err = Nil
    /\ last.c = 1
    /\ pool[1] = <<>>
    /\ \A c \in Dialed : closeCnt[c] = 0
    /\ released[1] = 0
    /\ misuses = 0

\* C10 as stated: a connection that was checked out when Release ran never
\* enters the idle set
C10_OrphanNeverIdle ==
    \A c \in orphan : Occ(pool[1], c) = 0

\* C10 amended: Put treats such a connection like any other: if its probe says
\* live it is appended to the idle set, not closed, the count unchanged; only
\* if the probe says not live it is closed and kept out of the idle set
C10_OrphanPutLikeAnyOther ==
    [][\A t \in Threads, c \in orphan :
          /\ Put(t, 1, c, TRUE) =>
                /\ pool'[1] = Append(pool[1], c)
                /\ closeCnt' = closeCnt
                /\ count' = count
                /\ last'.err = Nil
          /\ Put(t, 1, c, FALSE) =>
                /\ pool' = pool
                /\ closeCnt'[c] = closeCnt[c] + 1
                /\ last'.err = ERROR_INVALID_CLIENT]_vars

C10_Witness ==
    /\ last.op = "Put"
    /\ last.err = Nil
    /\ last.c \in orphan
    /\ pool[1] = <<last.c>>
    /\ closeCnt[last.c] = 0
    /\ nextConn = 2
    /\ count[1] = 0
    /\ misuses = 0

\* the connections checked out: created or popped by a Get and not yet handed
\* back by Put or DelErrorClient
CheckedOut == UNION {held[t] : t \in Threads}

\* no thread is between the close and the decrement of a DelErrorClient
NoDelPending == \A t \in Threads : pc[t] # "del"

\* C11: whenever no DelErrorClient is half done and the callers handed back
\* only what they held, the count is the number of idle entries plus the
\* number of connections checked out; so the idle set is never larger than
\* the count
C11_CountIsIdlePlusCheckedOut ==
    (misuses = 0 /\ NoDelPending) =>
        /\ count[1] = Len(pool[1]) + Cardinality(CheckedOut)
        /\ Len(pool[1]) <= count[1]

\* the threads that are past the delete of a ReleasePool and about to shut
\* down the pool p
Releasing(p) == {t \in Threads : pc[t] = "rprel" /\ loc[t].p = p}

\* C12: a pool is removed and shut down by one successful ReleasePool call
\* only: no two ReleasePool calls have both found and removed the same pool and
\* are both about to shut it down
C12_OneReleasePoolPerPool ==
    \A p \in PoolIds : Cardinality(Releasing(p)) <= 1

\* the threads blocked inside dialF in a Get on a pool created for address a
DialingOn(a) == {t \in Threads : pc[t] = "dial" /\ poolAddr[loc[t].p] = a}

\* the registry's write lock is held by a ReleaseAllPool whose every remaining
\* Release waits for a mutex held by a Get that is inside dialF: until a dialF
\* returns, no GetPool and no ReleasePool can take the registry's lock
RegistryBlockedByDial ==
    /\ rw # NoThread
    /\ pc[rw] = "ra"
    /\ loc[rw].todo # {}
    /\ \A p \in loc[rw].todo : mu[p] # NoThread /\ pc[mu[p]] = "dial"

\* C13: a dialF blocked inside a Get on the pool of address "a" never blocks
\* the GetPool and ReleasePool calls for the other address "b", also while a
\* ReleaseAllPool runs
C13_DialDoesNotBlockRegistry ==
    DialingOn("a") # {} => ~RegistryBlockedByDial

\* C14: a Get returns ERROR_MAX_CLIENT_COUNT only for a positive maxCount;
\* with maxCount = 0, the unbounded pool, it never does
C14_MaxErrorOnlyWhenBounded ==
    (last.op = "Get" /\ last.err = ERROR_MAX_CLIENT_COUNT) => maxCount > 0

\* C15: with a positive capacity, once a Get has returned
\* ERROR_MAX_CLIENT_COUNT and a connection was then handed back (a completed
\* Put, live or not, or a completed DelErrorClient) or the pool released, the
\* next Get does not return ERROR_MAX_CLIENT_COUNT: it returns an idle
\* connection or goes on to dial one, and the dial, if it succeeds, returns
\* the new connection
C15_RecoversAfterHandback ==
    [][\A t \in Threads :
          /\ (GetStart(t) /\ maxCount > 0 /\ last.recov = "freed") =>
                /\ last'.err # ERROR_MAX_CLIENT_COUNT
                /\ last'.op = "Get" =>
                      /\ last'.err = Nil
                      /\ last'.c # NilClient
                      /\ last'.c \in held'[t]
                /\ last'.op = "GetEnter" => pc'[t] = "dial"
          /\ (GetDial(t, TRUE) /\ maxCount > 0) =>
                /\ last'.err = Nil
                /\ last'.c = nextConn
                /\ last'.c \in held'[t]
                /\ count'[1] = count[1] + 1]_vars

C15_Witness ==
    /\ maxCount > 0
    /\ last.op = "Get"
    /\ last.recov = "recovered"
    /\ last.err = Nil
    /\ last.c \in held[last.t]
    /\ misuses = 0

\* C16: a Get never sees an operation half done: when a Get returns
\* ERROR_MAX_CLIENT_COUNT, with disciplined callers and no Release before, the
\* count it compared is the number of open connections, so at least maxCount
\* connections are open (none of them is one that DelErrorClient has closed
\* and the count still includes)
C16_GetSeesWholeOperations ==
    [][\A t \in Threads :
          (/\ GetStart(t)
           /\ last'.err = ERROR_MAX_CLIENT_COUNT
           /\ maxCount > 0
           /\ misuses = 0
           /\ released[1] = 0) => Cardinality(Open) >= maxCount]_vars

\* the idle list is in ascending order of lastCalledTime
IdleSorted ==
    \A i, j \in 1..Len(pool[1]) :
        i < j => lastCalledTime[pool[1][i]] <= lastCalledTime[pool[1][j]]

\* s is what is left of r after taking entries from its front only
IsSuffix(s, r) ==
    \E k \in 0..Len(r) : s = SubSeq(r, k + 1, Len(r))

\* C17 as stated: the idle list is in ascending order of return time in every
\* reachable state, after any sequence of Get, Put, DelErrorClient and Release
C17_IdleSorted == IdleSorted

\* C17 amended: as long as callers hand back only connections they hold, the
\* idle list is in ascending order of return time in every reachable state;
\* and, whatever the callers do, a step changes the idle list only by an
\* append at the back (Put) or by removing entries from the front (Get,
\* Release)
C17_IdleSortedDisciplined ==
    /\ [](misuses = 0 => IdleSorted)
    /\ [][\/ pool'[1] = pool[1]
          \/ \E c \in Conns : pool'[1] = Append(pool[1], c) /\ last'.op = "Put"
          \/ IsSuffix(pool'[1], pool[1]) /\ last'.op \in {"Get", "GetEnter", "Release"}]_vars

C17_Witness ==
    /\ misuses = 0
    /\ Len(pool[1]) = 2
    /\ lastCalledTime[pool[1][1]] < lastCalledTime[pool[1][2]]
    /\ last.op = "Put"
    /\ last.c = pool[1][2]

\* the age of connection c: the time since it was last stamped
Age(c) == now - lastCalledTime[c]

\* the number of leading idle entries whose age is at least the idle timeout
StalePrefix ==
    CHOOSE k \in 0..Len(pool[1]) :
        /\ \A i \in 1..k : Age(pool[1][i]) >= idleDur
        /\ k < Len(pool[1]) => Age(pool[1][k + 1]) < idleDur

\* C18 as stated: every entry a Get evicts (closes) has an age strictly greater
\* than the idle timeout; an entry whose age equals the timeout is kept
C18_EvictsOnlyOlderThanTimeout ==
    [][\A t \in Threads :
          GetStart(t) =>
              \A c \in Conns :
                  closeCnt'[c] > closeCnt[c] => Age(c) > idleDur]_vars

\* C18 amended: a Get evicts exactly the leading idle entries whose age is at
\* least the idle timeout (an entry whose age equals the timeout is evicted):
\* each is closed once and takes one off the count unless the count is already
\* 0; no other connection is closed; the entry that follows them has an age
\* below the timeout and, with callers that hand back only what they hold, so
\* has every entry left and the connection handed out
C18_EvictsAtLeastTimeout ==
    [][\A t \in Threads :
          GetStart(t) =>
              LET k == StalePrefix
                  rest == SubSeq(pool[1], k + 1, Len(pool[1]))
              IN /\ last'.ev = k
                 /\ \A c \in Conns :
                       closeCnt'[c] = closeCnt[c] + Occ(SubSeq(pool[1], 1, k), c)
                 /\ count'[1] = IF count[1] > k THEN count[1] - k ELSE 0
                 /\ IF rest = <<>>
                    THEN pool'[1] = <<>>
                    ELSE /\ pool'[1] = Tail(rest)
                         /\ last'.c = Head(rest)
                         /\ Age(Head(rest)) < idleDur
                 /\ misuses = 0 =>
                       \A i \in 1..Len(pool'[1]) : Age(pool'[1][i]) < idleDur]_vars

\* a Get has just evicted an entry whose age was equal to the idle timeout and
\* handed out the younger entry behind it
C18_Witness ==
    /\ last.op = "Get"
    /\ last.ev = 1
    /\ last.c # NilClient
    /\ last.c \in held[last.t]
    /\ \E c \in Dialed : closeCnt[c] = 1 /\ Age(c) = idleDur /\ c # last.c
    /\ Age(last.c) < idleDur
    /\ misuses = 0
    /\ released[1] = 0

\* the pools GetPool has handed out to some caller
HandedOut == UNION {has[t] : t \in Threads}

\* C19: a pool that GetPool handed out and that the map no longer holds has
\* been shut down, or is about to be by the ReleasePool call that removed it
C19_DroppedPoolsAreReleased ==
    \A p \in HandedOut :
        (p \notin Registered /\ Releasing(p) = {}) => released[p] > 0

\* C20: as long as callers hand back only connections they hold (each
\* checked-out connection at most once), a Get never returns a connection the
\* pool has closed, the connections checked out and the idle entries are open,
\* and no connection is closed twice
C20_NoClosedHandedOutNoDoubleClose ==
    misuses = 0 =>
        /\ \A c \in Conns : closeCnt[c] <= 1
        /\ (last.op = "Get" /\ last.c # NilClient) => closeCnt[last.c] = 0
        /\ \A c \in CheckedOut : closeCnt[c] = 0
        /\ \A i \in 1..Len(pool[1]) : closeCnt[pool[1][i]] = 0

\* a Get has just handed out an idle connection, open, after the pool closed
\* another connection
C20_Witness ==
    /\ misuses = 0
    /\ last.op = "Get"
    /\ last.c # NilClient
    /\ last.c < nextConn - 1
    /\ closeCnt[last.c] = 0
    /\ \E c \in Dialed : closeCnt[c] = 1
    /\ released[1] > 0

\* the threads t waits for: the holder of the lock its next step needs
WaitsFor(t) ==
    IF pc[t] \in {"del", "rprel"}
    THEN {mu[loc[t].p]} \ {NoThread}
    ELSE IF pc[t] \in {"gp", "rp"}
    THEN {rw} \ {NoThread}
    ELSE IF pc[t] = "ra" /\ \A p \in loc[t].todo : mu[p] # NoThread
    THEN {mu[p] : p \in loc[t].todo}
    ELSE {}

\* the threads t waits for directly or through other waiting threads
RECURSIVE WaitsForWithin(_, _)
WaitsForWithin(t, n) ==
    IF n = 0 THEN {}
    ELSE WaitsFor(t) \cup UNION {WaitsForWithin(u, n - 1) : u \in WaitsFor(t)}

\* no thread waits, through locks held by waiting threads, for itself
NoWaitCycle == \A t \in Threads : t \notin WaitsForWithin(t, NumThreads)

\* C21: no state has threads waiting for the pool mutexes and the registry
\* lock in a cycle; and with a dialF that returns and fair locks every call
\* that has started returns (every thread is again and again between calls),
\* and every lock is free again and again (so a call waiting for it can start)
C21_DeadlockFree ==
    /\ []NoWaitCycle
    /\ \A t \in Threads : []<>(pc[t] = "idle")
    /\ \A p \in PoolIds : []<>(mu[p] = NoThread)
    /\ []<>(rw = NoThread)

\* a ReleaseAllPool holds the registry's lock and waits for the mutex of a
\* pool whose Get is inside dialF, while the other thread's DelErrorClient
\* has run before: the longest chain of waiting two threads can form
C21_Witness ==
    \E t, u \in Threads :
        /\ t # u
        /\ rw = t
        /\ pc[t] = "ra"
        /\ pc[u] = "dial"
        /\ WaitsFor(t) = {u}
        /\ WaitsFor(u) = {}
        /\ \E c \in Dialed : closeCnt[c] = 1

====
